---- MODULE Spec2Model ----
(***************************************************************************)
(* Landslide backend (server/index.js): the three data fetchers, the      *)
(* reasoning engine calculateLandslideRisk and the POST /predict route.   *)
(*                                                                         *)
(* Numbers are fixed point integers.  Units used throughout:               *)
(*   rain, precip, manualRain, temp, elevation, bulk_density : units       *)
(*   slope                          : tenths of a degree (one decimal)     *)
(*   clay, sand, silt               : tenths of a percent (mean / 10)      *)
(*   FoS, shear_strength, shear_stress, c, c_eff : thousandths             *)
(*   cohesion_*, friction_* of details : hundredths (toFixed(2))           *)
(*   phi                            : thousandths of a degree              *)
(*   phi_eff, phi_used              : 1e-5 degree                          *)
(*   sin, cos, tan                  : ten-thousandths                      *)
(*   saturationIndex, pore pressure factor : tenths                        *)
(*   probability                    : hundredths                           *)
(***************************************************************************)
EXTENDS Integers, Sequences, FiniteSets, TLC

VARIABLES
    features,   \* engine harness: the FeatureSet handed to the engine
    result,     \* engine harness: the PredictionResult, or NoResult
    pc,         \* per request: "idle", "fetching" (suspended at the await), "done"
    body,       \* per request: req.body
    weather,    \* per request: fetchWeather's promise (Pending or its value)
    soil,       \* per request: fetchSoil's promise
    topo,       \* per request: calculateSlope's promise
    responses,  \* per request: the responses written to res, in order
    invoked,    \* per request: the functions the handler has called
    failed,     \* per request: the fetchers whose upstream call failed
    thrown,     \* per request: an exception escaped inside the try block
    soilUp,     \* soil harness: the outcome of fetchSoil's axios.get
    soilOut     \* soil harness: what fetchSoil resolved with, or Pending

engineVars == <<features, result>>

serverVars == <<pc, body, weather, soil, topo, responses, invoked, failed, thrown>>

soilVars == <<soilUp, soilOut>>

vars == <<features, result, pc, body, weather, soil, topo, responses, invoked,
          failed, thrown, soilUp, soilOut>>

NoResult == [level |-> "none"]

----------------------------------------------------------------------------
(* Arithmetic helpers *)

Abs(x) == IF x < 0 THEN -x ELSE x

Max(a, b) == IF a >= b THEN a ELSE b

\* floor(a * b / d) for a, b >= 0 without leaving 32 bits
MulDiv(a, b, d) == a * (b \div d) + (a * (b % d)) \div d

\* Number(x.toFixed(2)) of a value held in thousandths -> hundredths
toFixed2(x) == (x + 5) \div 10

\* x.toFixed(0) of a value held in tenths -> units
toFixed0(x) == (x + 5) \div 10

----------------------------------------------------------------------------
(* Math.sin / Math.cos / Math.tan, tabulated per degree (x 10000) and      *)
(* interpolated linearly in between.                                       *)

SinTable ==
    <<0, 175, 349, 523, 698, 872, 1045, 1219, 1392, 1564,
      1736, 1908, 2079, 2250, 2419, 2588, 2756, 2924, 3090, 3256,
      3420, 3584, 3746, 3907, 4067, 4226, 4384, 4540, 4695, 4848,
      5000, 5150, 5299, 5446, 5592, 5736, 5878, 6018, 6157, 6293,
      6428, 6561, 6691, 6820, 6947, 7071, 7193, 7314, 7431, 7547,
      7660, 7771, 7880, 7986, 8090, 8192, 8290, 8387, 8480, 8572,
      8660, 8746, 8829, 8910, 8988, 9063, 9135, 9205, 9272, 9336,
      9397, 9455, 9511, 9563, 9613, 9659, 9703, 9744, 9781, 9816,
      9848, 9877, 9903, 9925, 9945, 9962, 9976, 9986, 9994, 9998,
      10000>>

TanTable ==
    <<0, 175, 349, 524, 699, 875, 1051, 1228, 1405, 1584,
      1763, 1944, 2126, 2309, 2493, 2679, 2867, 3057, 3249, 3443,
      3640, 3839, 4040, 4245, 4452, 4663, 4877, 5095, 5317, 5543,
      5774, 6009, 6249, 6494, 6745, 7002, 7265, 7536, 7813, 8098,
      8391, 8693, 9004, 9325, 9657, 10000, 10355, 10724, 11106, 11504,
      11918, 12349, 12799, 13270, 13764, 14281, 14826, 15399, 16003, 16643,
      17321, 18040, 18807, 19626, 20503, 21445, 22460, 23559, 24751, 26051,
      27475, 29042, 30777, 32709, 34874, 37321, 40108, 43315, 47046, 51446,
      56713, 63138, 71154, 81443, 95144, 114301, 143007, 190811, 286363, 572900>>

\* sin of an angle in tenths of a degree, 0..900
Sin(t) ==
    LET d == t \div 10
        r == t % 10
    IN  IF r = 0 THEN SinTable[d + 1]
        ELSE SinTable[d + 1] + ((SinTable[d + 2] - SinTable[d + 1]) * r) \div 10

\* cos of an angle in tenths of a degree, 0..900
Cos(t) == Sin(900 - t)

\* tan of an angle in 1e-5 degree, 0 .. 88.99999 degrees
Tan(p) ==
    LET d == p \div 100000
        r == (p % 100000) \div 100
    IN  TanTable[d + 1] + ((TanTable[d + 2] - TanTable[d + 1]) * r) \div 1000

----------------------------------------------------------------------------
(* 2. The reasoning engine *)

Sentence(id, arg) == [id |-> id, arg |-> arg]

SnowCodes == {71, 73, 75, 77, 85, 86}

isSeaOrWater(f) ==
    f.isWater \/ (f.elevation >= -5 /\ f.elevation <= 5
                  /\ Abs(f.slope) < 5 /\ f.bulk_density < 20)

\* mutant: the temperature test is dropped
isSnow_CodesOnly(f) == f.code \in SnowCodes

isSnow(f) == f.code \in SnowCodes \/ f.temp < -1

WaterResult ==
    [level |-> "Safe",
     reason |-> <<Sentence("Water", 0)>>,
     details |-> [FoS |-> 100000, cohesion_base |-> 0, friction_base |-> 0,
                  cohesion_effective |-> 0, friction_effective |-> 0,
                  shear_strength |-> 0, shear_stress |-> 0]]

\* mutant: the level's slope test is inclusive, the FoS test is not
SnowResult_LevelInclusive(f) ==
    [level |-> IF f.slope >= 300 THEN "High" ELSE "Medium",
     reason |-> <<Sentence("Snow", 0)>>,
     details |-> [FoS |-> IF f.slope > 300 THEN 900 ELSE 1500,
                  cohesion_base |-> 5000, friction_base |-> 1000,
                  cohesion_effective |-> 5000, friction_effective |-> 1000,
                  shear_strength |-> 0, shear_stress |-> 0]]

SnowResult(f) ==
    [level |-> IF f.slope > 300 THEN "High" ELSE "Medium",
     reason |-> <<Sentence("Snow", 0)>>,
     details |-> [FoS |-> IF f.slope > 300 THEN 900 ELSE 1500,
                  cohesion_base |-> 5000, friction_base |-> 1000,
                  cohesion_effective |-> 5000, friction_effective |-> 1000,
                  shear_strength |-> 0, shear_stress |-> 0]]

\* c = 35 fClay + 10 fSilt + 1 fSand
cohesion(f) == 35 * f.clay + 10 * f.silt + 1 * f.sand

\* phi = 34 fSand + 28 fSilt + 18 fClay
friction(f) == 34 * f.sand + 28 * f.silt + 18 * f.clay

\* mutant: the two middle rows carry each other's index
saturationIndex_Swapped(rain) ==
    IF rain > 800 THEN 10
    ELSE IF rain > 400 THEN 4
    ELSE IF rain > 100 THEN 7
    ELSE 1

saturationIndex(rain) ==
    IF rain > 800 THEN 10
    ELSE IF rain > 400 THEN 7
    ELSE IF rain > 100 THEN 4
    ELSE 1

\* mutant: cohesion is not reduced by saturation
c_used_NoSaturation(f) == Max(0, cohesion(f))

\* c_used = max(0, c (1 - 0.5 s))
c_used(f) == Max(0, (cohesion(f) * (20 - saturationIndex(f.rain))) \div 20)

\* phi_used = max(5, phi (1 - 0.3 s))
phi_used(f) == Max(500000, friction(f) * (100 - 3 * saturationIndex(f.rain)))

\* gamma z = (bulk_density / 100) 9.81 x 3.0
gammaZ(f) == (f.bulk_density * 2943) \div 10

sigma(f) == MulDiv(MulDiv(gammaZ(f), Cos(f.slope), 10000), Cos(f.slope), 10000)

tau_driving(f) ==
    MulDiv(MulDiv(gammaZ(f), Sin(f.slope), 10000), Cos(f.slope), 10000)

\* u / sigma
poreFactor(rain) ==
    IF rain > 800 THEN 5
    ELSE IF rain > 400 THEN 3
    ELSE IF rain > 100 THEN 1
    ELSE 0

sigma_effective(f) == Max(0, sigma(f) - (sigma(f) * poreFactor(f.rain)) \div 10)

tau_resisting(f) ==
    c_used(f) + MulDiv(sigma_effective(f), Tan(phi_used(f)), 10000)

\* FoS = tau_resisting / (tau_driving + 0.001), before the flat override
rawFoS(f) == (tau_resisting(f) * 1000) \div (tau_driving(f) + 1)

\* mutant: flat terrain keeps the computed FoS
FoSOf_NoFlatOverride(f) == rawFoS(f)

FoSOf(f) == IF f.slope < 10 THEN 20000 ELSE rawFoS(f)

probabilityOf(slope, FoS) ==
    IF slope < 10 THEN 1
    ELSE IF FoS < 1000 THEN 95
    ELSE IF FoS < 1200 THEN 75
    ELSE IF FoS < 1500 THEN 40
    ELSE IF FoS < 2000 THEN 20
    ELSE 5

\* mutant: High only above 0.75
levelOf_HighAbove75(probability) ==
    IF probability > 75 THEN "High"
    ELSE IF probability > 30 THEN "Medium"
    ELSE "Low"

levelOf(probability) ==
    IF probability > 70 THEN "High"
    ELSE IF probability > 30 THEN "Medium"
    ELSE "Low"

textureSentence(f) ==
    IF f.clay > 450 THEN <<Sentence("ClayRich", toFixed0(f.clay))>>
    ELSE IF f.sand > 600 THEN <<Sentence("Sandy", toFixed0(f.sand))>>
    ELSE <<Sentence("Balanced", 0)>>

\* mutant: the steep threshold is inclusive
slopeSentence_Inclusive(f) ==
    IF f.slope >= 350 THEN <<Sentence("Steep", f.slope)>>
    ELSE IF f.slope < 50 THEN <<Sentence("Flat", f.slope)>>
    ELSE <<>>

slopeSentence(f) ==
    IF f.slope > 350 THEN <<Sentence("Steep", f.slope)>>
    ELSE IF f.slope < 50 THEN <<Sentence("Flat", f.slope)>>
    ELSE <<>>

rainSentence(f) ==
    IF f.rain > 400 THEN <<Sentence("CriticalRain", 0)>>
    ELSE IF f.rain > 100 THEN <<Sentence("ModerateRain", 0)>>
    ELSE <<>>

NormalResult(f) ==
    [level |-> levelOf(probabilityOf(f.slope, rawFoS(f))),
     reason |-> textureSentence(f) \o slopeSentence(f) \o rainSentence(f),
     details |-> [FoS |-> FoSOf(f),
                  cohesion_base |-> toFixed2(cohesion(f)),
                  friction_base |-> toFixed2(friction(f)),
                  cohesion_effective |-> toFixed2(c_used(f)),
                  friction_effective |-> (phi_used(f) + 500) \div 1000,
                  shear_strength |-> tau_resisting(f),
                  shear_stress |-> tau_driving(f)]]

\* mutant: the snow/ice check runs before the water check
calculateLandslideRisk_SnowFirst(f) ==
    IF isSnow(f) THEN SnowResult(f)
    ELSE IF isSeaOrWater(f) THEN WaterResult
    ELSE NormalResult(f)

calculateLandslideRisk(f) ==
    IF isSeaOrWater(f) THEN WaterResult
    ELSE IF isSnow(f) THEN SnowResult(f)
    ELSE NormalResult(f)

----------------------------------------------------------------------------
(* JavaScript values that may be absent *)

Undefined == [kind |-> "undefined"]

Null == [kind |-> "null"]

Num(v) == [kind |-> "number", val |-> v]

Pending == [kind |-> "pending"]

Failure == [kind |-> "failure"]

\* a ?? b
Coalesce(a, b) == IF a = Undefined \/ a = Null THEN b ELSE a.val

----------------------------------------------------------------------------
(* 1. Data fetching.  Each fetcher maps the outcome of its axios.get to    *)
(* the record it resolves with; a rejected get is caught and replaced by   *)
(* the fetcher's default.                                                  *)

WeatherDefault == [temp |-> 25, humidity |-> 50, rain |-> 0, precip_real |-> 0, code |-> 0]

SoilDefault == [bulk_density |-> 130, clay |-> 330, sand |-> 330, silt |-> 340, isWater |-> FALSE]

SoilWater == [bulk_density |-> 0, clay |-> 0, sand |-> 0, silt |-> 0, isWater |-> TRUE]

TopoDefault == [elevation |-> 0, slope |-> 0]

\* mutant: a failed weather call resolves with an empty record's zeros
fetchWeather_ZeroDefault(up) ==
    IF up = Failure
    THEN [temp |-> 0, humidity |-> 0, rain |-> 0, precip_real |-> 0, code |-> 0]
    ELSE LET temp == IF up.hourlyTemp /= Undefined THEN up.hourlyTemp.val
                     ELSE Coalesce(up.currentTemp, 25)
             humidity == IF up.humidity /= Undefined THEN up.humidity.val ELSE 50
             precip == IF up.precip /= Undefined THEN up.precip.val ELSE 0
             code == Coalesce(up.code, 0)
         IN  [temp |-> temp, humidity |-> humidity, rain |-> precip * 10,
              precip_real |-> precip, code |-> code]

\* up: Failure, or [kind |-> "ok", hourlyTemp, currentTemp, humidity, precip, code]
fetchWeather(up) ==
    IF up = Failure THEN WeatherDefault
    ELSE LET temp == IF up.hourlyTemp /= Undefined THEN up.hourlyTemp.val
                     ELSE Coalesce(up.currentTemp, 25)
             humidity == IF up.humidity /= Undefined THEN up.humidity.val ELSE 50
             precip == IF up.precip /= Undefined THEN up.precip.val ELSE 0
             code == Coalesce(up.code, 0)
         IN  [temp |-> temp, humidity |-> humidity, rain |-> precip * 10,
              precip_real |-> precip, code |-> code]

\* the mean of one property: its layer's first depth, else props[name].values
getVal(layerMean, directMean) ==
    LET fromLayers == Coalesce(layerMean, 0)
    IN  IF fromLayers = 0 /\ directMean /= Undefined
        THEN (IF Coalesce(directMean, 0) /= 0 THEN directMean.val ELSE fromLayers)
        ELSE fromLayers

\* mutant: an answer without a properties object is taken for open water
fetchSoil_WaterWithoutProps(up) ==
    IF up = Failure THEN SoilDefault
    ELSE IF ~up.properties THEN SoilWater
    ELSE LET clay == getVal(up.layers.clay, up.direct.clay)
             sand == getVal(up.layers.sand, up.direct.sand)
             bulk_density == getVal(up.layers.bdod, up.direct.bdod)
             silt == 1000 - clay - sand
         IN  IF clay = 0 /\ sand = 0 /\ bulk_density = 0 THEN SoilWater
             ELSE [bulk_density |-> bulk_density, clay |-> clay, sand |-> sand,
                   silt |-> IF silt < 0 THEN 0 ELSE silt, isWater |-> FALSE]

\* up: Failure, [kind |-> "ok", properties |-> FALSE], or
\*     [kind |-> "ok", properties |-> TRUE, layers |-> [clay, sand, bdod],
\*      direct |-> [clay, sand, bdod]]
fetchSoil(up) ==
    IF up = Failure THEN SoilDefault
    ELSE IF ~up.properties THEN SoilDefault
    ELSE LET clay == getVal(up.layers.clay, up.direct.clay)
             sand == getVal(up.layers.sand, up.direct.sand)
             bulk_density == getVal(up.layers.bdod, up.direct.bdod)
             silt == 1000 - clay - sand
         IN  IF clay = 0 /\ sand = 0 /\ bulk_density = 0 THEN SoilWater
             ELSE [bulk_density |-> bulk_density, clay |-> clay, sand |-> sand,
                   silt |-> IF silt < 0 THEN 0 ELSE silt, isWater |-> FALSE]

\* tan of t tenths of a degree minus half a tenth, times dist = 220, in cm
riseBelow(t) == IF t = 0 THEN 0 ELSE (Tan(t * 10000 - 5000) * 220) \div 100

RECURSIVE atanSearch(_, _, _)
\* the largest t in lo..hi whose lower rounding edge is not above the rise
atanSearch(lo, hi, riseSqCm) ==
    IF lo >= hi THEN lo
    ELSE LET mid == (lo + hi + 1) \div 2
         IN  IF riseBelow(mid) * riseBelow(mid) <= riseSqCm
             THEN atanSearch(mid, hi, riseSqCm)
             ELSE atanSearch(lo, mid - 1, riseSqCm)

\* the steepest slope the search considers, in tenths of a degree
MaxSlope == 600

\* parseFloat((Math.atan(sqrt(riseSq) / 220) * 180 / PI).toFixed(1)), riseSq in
\* m^2, for slopes up to MaxSlope
slopeDeg(riseSq) == atanSearch(0, MaxSlope, riseSq * 10000)

\* up: Failure, or [kind |-> "ok", elevation |-> <<h0, hNorth, hEast>>] (maybe shorter)
calculateSlope(up) ==
    IF up = Failure THEN TopoDefault
    ELSE LET e == up.elevation
             h0 == IF Len(e) >= 1 THEN e[1] ELSE 0
             hNorth == IF Len(e) >= 2 THEN e[2] ELSE h0
             hEast == IF Len(e) >= 3 THEN e[3] ELSE h0
             riseSq == (hEast - h0) * (hEast - h0) + (hNorth - h0) * (hNorth - h0)
         IN  [elevation |-> h0, slope |-> slopeDeg(riseSq)]

----------------------------------------------------------------------------
(* 3. The route POST /predict *)

Reqs == {1, 2}

\* mutant: the override is tested for truthiness, so 0 does not count
mergeFeatures_Truthy(w, s, t, manualRain) ==
    LET merged == [temp |-> w.temp, humidity |-> w.humidity, rain |-> w.rain,
                   precip_real |-> w.precip_real, code |-> w.code,
                   bulk_density |-> s.bulk_density, clay |-> s.clay,
                   sand |-> s.sand, silt |-> s.silt, isWater |-> s.isWater,
                   elevation |-> t.elevation, slope |-> t.slope]
    IN  IF manualRain /= Null /\ manualRain /= Undefined /\ manualRain.val /= 0
        THEN [merged EXCEPT !.precip_real = manualRain.val,
                            !.rain = manualRain.val * 10]
        ELSE merged

\* { ...weather, ...soil, ...topo } with the manual rainfall override
mergeFeatures(w, s, t, manualRain) ==
    LET merged == [temp |-> w.temp, humidity |-> w.humidity, rain |-> w.rain,
                   precip_real |-> w.precip_real, code |-> w.code,
                   bulk_density |-> s.bulk_density, clay |-> s.clay,
                   sand |-> s.sand, silt |-> s.silt, isWater |-> s.isWater,
                   elevation |-> t.elevation, slope |-> t.slope]
    IN  IF manualRain /= Null /\ manualRain /= Undefined
        THEN [merged EXCEPT !.precip_real = manualRain.val,
                            !.rain = manualRain.val * 10]
        ELSE merged

isSimulatedOf(manualRain) == manualRain /= Null /\ manualRain /= Undefined

BadRequest == [status |-> 400, error |-> "lat and lng are required"]

ServerError == [status |-> 500, error |-> "Failed"]

Success(b, f, manualRain) ==
    [status |-> 200, location |-> [lat |-> b.lat, lng |-> b.lng], data |-> f,
     prediction |-> calculateLandslideRisk(f),
     isSimulated |-> isSimulatedOf(manualRain)]

\* mutant: the request is refused only when both coordinates are missing
HandleRequest_BothMissing(r, b) ==
    /\ pc[r] = "idle"
    /\ body' = [body EXCEPT ![r] = b]
    /\ IF b.lat = Undefined /\ b.lng = Undefined
       THEN /\ responses' = [responses EXCEPT ![r] = Append(@, BadRequest)]
            /\ pc' = [pc EXCEPT ![r] = "done"]
            /\ UNCHANGED invoked
       ELSE /\ invoked' = [invoked EXCEPT
                  ![r] = @ \cup {"fetchWeather", "fetchSoil", "calculateSlope"}]
            /\ pc' = [pc EXCEPT ![r] = "fetching"]
            /\ UNCHANGED responses
    /\ UNCHANGED <<weather, soil, topo, failed, thrown, features, result, soilVars>>

\* the handler up to its await: validation, then the three fetchers are called
HandleRequest(r, b) ==
    /\ pc[r] = "idle"
    /\ body' = [body EXCEPT ![r] = b]
    /\ IF b.lat = Undefined \/ b.lng = Undefined
       THEN /\ responses' = [responses EXCEPT ![r] = Append(@, BadRequest)]
            /\ pc' = [pc EXCEPT ![r] = "done"]
            /\ UNCHANGED invoked
       ELSE /\ invoked' = [invoked EXCEPT
                  ![r] = @ \cup {"fetchWeather", "fetchSoil", "calculateSlope"}]
            /\ pc' = [pc EXCEPT ![r] = "fetching"]
            /\ UNCHANGED responses
    /\ UNCHANGED <<weather, soil, topo, failed, thrown, features, result, soilVars>>

\* client/src/App.jsx predictRisk: the manualRain the map client posts
rainToSend(simMode, manualRainOverride, rainValue) ==
    IF simMode /\ manualRainOverride /= Null THEN manualRainOverride
    ELSE IF simMode THEN Num(rainValue) ELSE Null

ManualRainSet == {0, 50}

WeatherReplies ==
    {Failure,
     [kind |-> "ok", hourlyTemp |-> Num(18), currentTemp |-> Num(17),
      humidity |-> Num(80), precip |-> Num(15), code |-> Num(61)],
     [kind |-> "ok", hourlyTemp |-> Undefined, currentTemp |-> Num(-3),
      humidity |-> Undefined, precip |-> Undefined, code |-> Num(71)]}

NoMeans == [clay |-> Undefined, sand |-> Undefined, bdod |-> Undefined]

SoilReplies ==
    {Failure,
     [kind |-> "ok", properties |-> FALSE],
     [kind |-> "ok", properties |-> TRUE,
      layers |-> [clay |-> Num(600), sand |-> Num(200), bdod |-> Num(130)],
      direct |-> NoMeans],
     [kind |-> "ok", properties |-> TRUE,
      layers |-> [clay |-> Num(0), sand |-> Num(0), bdod |-> Num(0)],
      direct |-> NoMeans]}

TopoReplies ==
    {Failure,
     [kind |-> "ok", elevation |-> <<500, 720, 500>>],
     [kind |-> "ok", elevation |-> <<100, 110, 120>>]}

\* the map client posts a clicked point
ClientPredict(r) ==
    \E simMode \in BOOLEAN, o \in {Null} \cup {Num(v) : v \in ManualRainSet},
       rainValue \in ManualRainSet :
        HandleRequest(r, [lat |-> Num(10), lng |-> Num(20),
                          manualRain |-> rainToSend(simMode, o, rainValue)])

\* any other client: fields may be missing
RawRequest(r) ==
    \E lat \in {Undefined, Num(10)}, lng \in {Undefined, Num(20)},
       m \in {Undefined, Null} \cup {Num(v) : v \in ManualRainSet} :
        HandleRequest(r, [lat |-> lat, lng |-> lng, manualRain |-> m])

WeatherSettles(r) ==
    /\ pc[r] = "fetching" /\ weather[r] = Pending
    /\ \E up \in WeatherReplies :
        /\ weather' = [weather EXCEPT ![r] = fetchWeather(up)]
        /\ failed' = [failed EXCEPT
               ![r] = IF up = Failure THEN @ \cup {"weather"} ELSE @]
    /\ UNCHANGED <<pc, body, soil, topo, responses, invoked, thrown, features, result, soilVars>>

SoilSettles(r) ==
    /\ pc[r] = "fetching" /\ soil[r] = Pending
    /\ \E up \in SoilReplies :
        /\ soil' = [soil EXCEPT ![r] = fetchSoil(up)]
        /\ failed' = [failed EXCEPT
               ![r] = IF up = Failure THEN @ \cup {"soil"} ELSE @]
    /\ UNCHANGED <<pc, body, weather, topo, responses, invoked, thrown, features, result, soilVars>>

SlopeSettles(r) ==
    /\ pc[r] = "fetching" /\ topo[r] = Pending
    /\ \E up \in TopoReplies :
        /\ topo' = [topo EXCEPT ![r] = calculateSlope(up)]
        /\ failed' = [failed EXCEPT
               ![r] = IF up = Failure THEN @ \cup {"topo"} ELSE @]
    /\ UNCHANGED <<pc, body, weather, soil, responses, invoked, thrown, features, result, soilVars>>

Joined(r) ==
    /\ pc[r] = "fetching"
    /\ weather[r] /= Pending /\ soil[r] /= Pending /\ topo[r] /= Pending

\* mutant: the fetched weather is kept in one place shared by all requests,
\* so a request may be answered from another request's weather
Respond_SharedWeather(r) ==
    /\ Joined(r)
    /\ LET q == IF \E p \in Reqs \ {r} : weather[p] /= Pending
                THEN CHOOSE p \in Reqs \ {r} : weather[p] /= Pending
                ELSE r
           f == mergeFeatures(weather[q], soil[r], topo[r], body[r].manualRain)
       IN  responses' = [responses EXCEPT
               ![r] = Append(@, Success(body[r], f, body[r].manualRain))]
    /\ invoked' = [invoked EXCEPT ![r] = @ \cup {"calculateLandslideRisk"}]
    /\ pc' = [pc EXCEPT ![r] = "done"]
    /\ UNCHANGED <<body, weather, soil, topo, failed, thrown, features, result, soilVars>>

\* Promise.all resolved: merge, override, evaluate, res.json
Respond(r) ==
    /\ Joined(r)
    /\ LET f == mergeFeatures(weather[r], soil[r], topo[r], body[r].manualRain)
       IN  responses' = [responses EXCEPT
               ![r] = Append(@, Success(body[r], f, body[r].manualRain))]
    /\ invoked' = [invoked EXCEPT ![r] = @ \cup {"calculateLandslideRisk"}]
    /\ pc' = [pc EXCEPT ![r] = "done"]
    /\ UNCHANGED <<body, weather, soil, topo, failed, thrown, features, result, soilVars>>

\* something inside the try block threw before res.json: the catch answers 500
RespondError(r) ==
    /\ Joined(r)
    /\ thrown' = [thrown EXCEPT ![r] = TRUE]
    /\ responses' = [responses EXCEPT ![r] = Append(@, ServerError)]
    /\ pc' = [pc EXCEPT ![r] = "done"]
    /\ UNCHANGED <<body, weather, soil, topo, failed, invoked, features, result, soilVars>>

NoBody == [lat |-> Undefined, lng |-> Undefined, manualRain |-> Undefined]

Init ==
    /\ pc = [r \in Reqs |-> "idle"]
    /\ body = [r \in Reqs |-> NoBody]
    /\ weather = [r \in Reqs |-> Pending]
    /\ soil = [r \in Reqs |-> Pending]
    /\ topo = [r \in Reqs |-> Pending]
    /\ responses = [r \in Reqs |-> <<>>]
    /\ invoked = [r \in Reqs |-> {}]
    /\ failed = [r \in Reqs |-> {}]
    /\ thrown = [r \in Reqs |-> FALSE]
    /\ soilUp = Failure
    /\ soilOut = Pending
    /\ features = NoBody
    /\ result = NoResult

Next ==
    \E r \in Reqs :
        \/ ClientPredict(r)
        \/ RawRequest(r)
        \/ WeatherSettles(r)
        \/ SoilSettles(r)
        \/ SlopeSettles(r)
        \/ Respond(r)
        \/ RespondError(r)

Spec == Init /\ [][Next]_vars

----------------------------------------------------------------------------
(* Engine harness: every FeatureSet of a grid around the engine's          *)
(* thresholds is handed to calculateLandslideRisk once.                    *)

RainSet == {0, 50, 100, 101, 150, 400, 401, 450, 800, 801, 850}

SlopeSet == {0, 4, 5, 9, 10, 49, 50, 300, 301, 350, 351, 450}

\* <<clay, sand, silt>>
TextureSet ==
    {<<600, 200, 200>>, <<330, 330, 340>>, <<450, 300, 250>>,
     <<451, 299, 250>>, <<200, 600, 200>>, <<100, 601, 299>>}

BulkSet == {19, 20, 130}

ElevationSet == {-6, -5, 5, 6, 500}

TempSet == {-2, -1, 20}

CodeSet == SnowCodes \cup {0, 80}

Feature(r, s, t, b, e, tp, c, w) ==
    [rain |-> r, slope |-> s, clay |-> t[1], sand |-> t[2], silt |-> t[3],
     bulk_density |-> b, elevation |-> e, temp |-> tp, code |-> c,
     isWater |-> w]

EngineInit ==
    /\ \E r \in RainSet, s \in SlopeSet, t \in TextureSet, b \in BulkSet,
          e \in ElevationSet, tp \in TempSet, c \in CodeSet, w \in BOOLEAN :
            features = Feature(r, s, t, b, e, tp, c, w)
    /\ result = NoResult
    /\ pc = [r \in Reqs |-> "idle"]
    /\ body = [r \in Reqs |-> NoBody]
    /\ weather = [r \in Reqs |-> Pending]
    /\ soil = [r \in Reqs |-> Pending]
    /\ topo = [r \in Reqs |-> Pending]
    /\ responses = [r \in Reqs |-> <<>>]
    /\ invoked = [r \in Reqs |-> {}]
    /\ failed = [r \in Reqs |-> {}]
    /\ thrown = [r \in Reqs |-> FALSE]
    /\ soilUp = Failure
    /\ soilOut = Pending

Evaluate ==
    /\ result = NoResult
    /\ result' = calculateLandslideRisk(features)
    /\ UNCHANGED <<features, serverVars, soilVars>>

EngineNext == Evaluate

SpecEngine == EngineInit /\ [][EngineNext]_vars

----------------------------------------------------------------------------
(* Soil harness: fetchSoil is applied once to every outcome of its         *)
(* axios.get drawn from a grid of layer means and props[name] means.       *)

\* the largest mean the soil service reports (g/kg)
MaxMean == 1000

LayerClaySet == {Undefined, Null, Num(0), Num(200), Num(600), Num(MaxMean)}

LayerSandSet == {Undefined, Num(0), Num(200), Num(700), Num(MaxMean)}

LayerBdodSet == {Undefined, Null, Num(0), Num(130)}

SoilInit ==
    /\ \/ soilUp = Failure
       \/ soilUp = [kind |-> "ok", properties |-> FALSE]
       \/ \E lc \in LayerClaySet, ls \in LayerSandSet, lb \in LayerBdodSet,
             dc \in {Undefined, Null, Num(450)}, ds \in {Undefined, Num(0)},
             db \in {Undefined, Num(140)} :
                soilUp = [kind |-> "ok", properties |-> TRUE,
                          layers |-> [clay |-> lc, sand |-> ls, bdod |-> lb],
                          direct |-> [clay |-> dc, sand |-> ds, bdod |-> db]]
    /\ soilOut = Pending
    /\ features = NoBody
    /\ result = NoResult
    /\ pc = [r \in Reqs |-> "idle"]
    /\ body = [r \in Reqs |-> NoBody]
    /\ weather = [r \in Reqs |-> Pending]
    /\ soil = [r \in Reqs |-> Pending]
    /\ topo = [r \in Reqs |-> Pending]
    /\ responses = [r \in Reqs |-> <<>>]
    /\ invoked = [r \in Reqs |-> {}]
    /\ failed = [r \in Reqs |-> {}]
    /\ thrown = [r \in Reqs |-> FALSE]

FetchSoil ==
    /\ soilOut = Pending
    /\ soilOut' = fetchSoil(soilUp)
    /\ UNCHANGED <<soilUp, engineVars, serverVars>>

SoilNext == FetchSoil

SpecSoil == SoilInit /\ [][SoilNext]_vars

----------------------------------------------------------------------------
(* Properties of the engine, checked under SpecEngine *)

Evaluated == result /= NoResult

\* the water condition as the specification words it
WaterCase(f) ==
    f.isWater \/ (f.elevation \in -5..5 /\ f.slope > -5 /\ f.slope < 5
                  /\ f.bulk_density < 20)

\* the snow/ice condition as the specification words it
SnowCase(f) == f.code \in {71, 73, 75, 77, 85, 86} \/ f.temp < -1

NormalPath(f) == ~WaterCase(f) /\ ~SnowCase(f)

ReasonIds(res) == {res.reason[i].id : i \in 1..Len(res.reason)}

\* C1: whenever the water condition holds (isWater, or elevation in [-5, 5]
\* with |slope| < 0.5 and bulk_density < 20) the result is Safe with FoS = 100
\* and every strength and shear field 0, whatever code, temp, rain and texture
\* are, the snow/ice condition included.
C1_WaterOverride ==
    (Evaluated /\ WaterCase(features)) =>
        /\ result.level = "Safe"
        /\ result.details.FoS = 100000
        /\ result.details.cohesion_base = 0
        /\ result.details.friction_base = 0
        /\ result.details.cohesion_effective = 0
        /\ result.details.friction_effective = 0
        /\ result.details.shear_strength = 0
        /\ result.details.shear_stress = 0

C1_Witness ==
    /\ Evaluated
    /\ ~features.isWater /\ WaterCase(features) /\ SnowCase(features)
    /\ features.rain > 800
    /\ result.level = "Safe"

\* C2: without the water override, a snow code or temp < -1 gives High and
\* FoS 0.9 when slope > 30, Medium and FoS 1.5 otherwise, with cohesion 50,
\* friction 10 and zero shear; with neither override the reason is never the
\* snow sentence.
C2_SnowOverride ==
    Evaluated =>
        /\ (~WaterCase(features) /\ SnowCase(features)) =>
              /\ result.level = (IF features.slope > 300 THEN "High" ELSE "Medium")
              /\ result.details.FoS = (IF features.slope > 300 THEN 900 ELSE 1500)
              /\ result.details.cohesion_base = 5000
              /\ result.details.cohesion_effective = 5000
              /\ result.details.friction_base = 1000
              /\ result.details.friction_effective = 1000
              /\ result.details.shear_strength = 0
              /\ result.details.shear_stress = 0
        /\ NormalPath(features) => "Snow" \notin ReasonIds(result)

C2_Witness ==
    /\ Evaluated
    /\ ~WaterCase(features)
    /\ features.code = 0 /\ features.temp = -2
    /\ features.slope = 301
    /\ result.level = "High" /\ result.details.FoS = 900

\* C3: with slope < 1 and no override, FoS is 20.0 and the level is Low,
\* whatever rain, texture and bulk density are.
C3_FlatOverride ==
    (Evaluated /\ NormalPath(features) /\ features.slope <= 9) =>
        /\ result.details.FoS = 20000
        /\ result.level = "Low"

C3_Witness ==
    /\ Evaluated /\ NormalPath(features)
    /\ features.slope = 9 /\ features.rain > 800
    /\ rawFoS(features) /= 20000
    /\ result.details.FoS = 20000

\* C4: on the normal path with slope >= 1 the level is High exactly when
\* FoS < 1.2 (probability 0.95 or 0.75), Medium exactly when 1.2 <= FoS < 1.5
\* (probability 0.40) and Low exactly when FoS >= 1.5 (probability 0.20 or
\* 0.05); FoS = 1.0, 1.2, 1.5 and 2.0 fall in the higher-FoS row.
C4_FoSTable ==
    (Evaluated /\ NormalPath(features) /\ features.slope >= 10) =>
        LET FoS == result.details.FoS
            probability == probabilityOf(features.slope, FoS)
        IN  /\ result.level = "High" <=> FoS < 1200
            /\ result.level = "Medium" <=> (1200 <= FoS /\ FoS < 1500)
            /\ result.level = "Low" <=> FoS >= 1500
            /\ result.level = "High" => probability \in {95, 75}
            /\ result.level = "Medium" => probability = 40
            /\ result.level = "Low" => probability \in {20, 5}
            /\ probability = 95 <=> FoS < 1000
            /\ probability = 5 <=> FoS >= 2000
            /\ probabilityOf(features.slope, 1000) = 75
            /\ probabilityOf(features.slope, 1200) = 40
            /\ probabilityOf(features.slope, 1500) = 20
            /\ probabilityOf(features.slope, 2000) = 5

\* the middle row, reached with moderate rain
C4_Witness ==
    /\ Evaluated /\ NormalPath(features) /\ features.slope >= 10
    /\ features.rain = 150
    /\ result.details.FoS \in 1200..1499
    /\ result.level = "Medium"

WellFormed(f) ==
    /\ f.clay >= 0 /\ f.sand >= 0 /\ f.silt >= 0 /\ f.bulk_density >= 0
    /\ f.slope >= 0 /\ f.slope < 900

\* C5: two well-formed FeatureSets that differ only in rain, rain1 <= rain2:
\* the FoS returned for rain2 is never greater than the FoS for rain1.
C5_MonotoneInRain ==
    (Evaluated /\ WellFormed(features)) =>
        \A rain2 \in RainSet :
            features.rain <= rain2 =>
                calculateLandslideRisk([features EXCEPT !.rain = rain2]).details.FoS
                    <= result.details.FoS

\* the FoS strictly falls at each of the thresholds 100, 400, 800
C5_Witness ==
    /\ Evaluated /\ WellFormed(features) /\ NormalPath(features)
    /\ features.rain = 50
    /\ LET FoSAt(r) == calculateLandslideRisk([features EXCEPT !.rain = r]).details.FoS
       IN  /\ FoSAt(150) < result.details.FoS
           /\ FoSAt(450) < FoSAt(150)
           /\ FoSAt(850) < FoSAt(450)

TextureIds == {"ClayRich", "Sandy", "Balanced"}

SlopeIds == {"Steep", "Flat"}

RainIds == {"CriticalRain", "ModerateRain"}

GroupOf(id) ==
    IF id \in TextureIds THEN 1 ELSE IF id \in SlopeIds THEN 2
    ELSE IF id \in RainIds THEN 3 ELSE 0

\* C6: on the normal path the reason is texture, slope, rain in that order,
\* with exactly one texture sentence (clay-rich if clay/100 > 0.45, else sandy
\* if sand/100 > 0.6, else balanced), a slope sentence only for slope > 35
\* (steep) or slope < 5 (flat), and a rain sentence only for rain > 400
\* (critical) or 100 < rain <= 400 (moderate).
C6_Narrative ==
    (Evaluated /\ NormalPath(features)) =>
        LET reason == result.reason
            ids == ReasonIds(result)
        IN  /\ \A i \in 1..Len(reason) : GroupOf(reason[i].id) /= 0
            /\ \A i, j \in 1..Len(reason) :
                  i < j => GroupOf(reason[i].id) < GroupOf(reason[j].id)
            /\ Cardinality(ids \cap TextureIds) = 1
            /\ "ClayRich" \in ids <=> features.clay > 450
            /\ "Sandy" \in ids <=> (features.clay <= 450 /\ features.sand > 600)
            /\ "Steep" \in ids <=> features.slope > 350
            /\ "Flat" \in ids <=> features.slope < 50
            /\ "CriticalRain" \in ids <=> features.rain > 400
            /\ "ModerateRain" \in ids <=> (features.rain > 100 /\ features.rain <= 400)

\* all three groups fire while the level is Low
C6_Witness ==
    /\ Evaluated /\ NormalPath(features)
    /\ Len(result.reason) = 3
    /\ result.reason[2].id = "Flat" /\ result.reason[3].id = "CriticalRain"
    /\ result.reason[1].id = "Sandy"
    /\ result.level = "Low"

Scenario == Feature(0, 450, <<600, 200, 200>>, 130, 500, 20, 0, FALSE)

\* C7 as stated: the scenario has cohesion_base 23.2, friction_base 23.6,
\* saturation index 0.1 and a level of Medium or High, with the clay-rich
\* sentence.
C7_AsStated ==
    (Evaluated /\ features = Scenario) =>
        /\ result.details.cohesion_base = 2320
        /\ result.details.friction_base = 2360
        /\ saturationIndex(features.rain) = 1
        /\ result.level \in {"Medium", "High"}
        /\ "ClayRich" \in ReasonIds(result)

\* C7, amended: the scenario takes the normal path with cohesion_base 23.2,
\* friction_base 23.2 and saturation index 0.1; FoS is about 1.57, between 1.5
\* and 2.0, so the level is Low; the clay-rich sentence is in the reason.
C7_Scenario ==
    (Evaluated /\ features = Scenario) =>
        /\ NormalPath(features)
        /\ result.details.cohesion_base = 2320
        /\ result.details.friction_base = 2320
        /\ saturationIndex(features.rain) = 1
        /\ result.details.FoS \in 1560..1575
        /\ result.level = "Low"
        /\ "ClayRich" \in ReasonIds(result)

C7_Witness == Evaluated /\ features = Scenario /\ result.level = "Low"

----------------------------------------------------------------------------
(* Properties of the route, checked under Spec *)

Answered(r) == pc[r] = "done"

HasCoordinates(r) == body[r].lat /= Undefined /\ body[r].lng /= Undefined

OverrideGiven(r) == body[r].manualRain \notin {Undefined, Null}

WeatherFields == {"temp", "humidity", "rain", "precip_real", "code"}

SoilFields == {"bulk_density", "clay", "sand", "silt", "isWater"}

TopoFields == {"elevation", "slope"}

\* the fields of record d named in fs equal those of record v
SameOn(fs, d, v) == \A k \in fs : d[k] = v[k]

\* C8 as stated: with lat and lng present, whatever subset of the fetchers
\* fails, the answer is a success with a prediction in which every failed
\* fetcher's fields are exactly its defaults; a failure gives no 500 and does
\* not keep the engine from being invoked.
C8_AsStated ==
    \A r \in Reqs :
        (Answered(r) /\ HasCoordinates(r) /\ ~thrown[r]) =>
            /\ Len(responses[r]) = 1
            /\ responses[r][1].status = 200
            /\ "calculateLandslideRisk" \in invoked[r]
            /\ "weather" \in failed[r] =>
                  SameOn(WeatherFields, responses[r][1].data, WeatherDefault)
            /\ "soil" \in failed[r] =>
                  SameOn(SoilFields, responses[r][1].data, SoilDefault)
            /\ "topo" \in failed[r] =>
                  SameOn(TopoFields, responses[r][1].data, TopoDefault)

\* C8, amended: as stated, except that when manualRain is present and
\* non-null the rain and precip_real of a failed weather fetch are the
\* override's values (manualRain * 10 and manualRain) instead of the defaults
\* 0 and 0; the other weather fields, the soil fields and the terrain fields
\* of failed fetchers are exactly their defaults.
C8_GracefulDegradation ==
    \A r \in Reqs :
        (Answered(r) /\ HasCoordinates(r) /\ ~thrown[r]) =>
            /\ Len(responses[r]) = 1
            /\ responses[r][1].status = 200
            /\ "calculateLandslideRisk" \in invoked[r]
            /\ responses[r][1].prediction =
                  calculateLandslideRisk(responses[r][1].data)
            /\ "weather" \in failed[r] =>
                  /\ SameOn({"temp", "humidity", "code"},
                            responses[r][1].data, WeatherDefault)
                  /\ IF OverrideGiven(r)
                     THEN /\ responses[r][1].data.precip_real = body[r].manualRain.val
                          /\ responses[r][1].data.rain = body[r].manualRain.val * 10
                     ELSE SameOn({"rain", "precip_real"},
                                 responses[r][1].data, WeatherDefault)
            /\ "soil" \in failed[r] =>
                  SameOn(SoilFields, responses[r][1].data, SoilDefault)
            /\ "topo" \in failed[r] =>
                  SameOn(TopoFields, responses[r][1].data, TopoDefault)

\* all three fetchers failed and the request was still answered
C8_Witness ==
    \E r \in Reqs :
        /\ Answered(r) /\ HasCoordinates(r)
        /\ failed[r] = {"weather", "soil", "topo"}
        /\ ~OverrideGiven(r)
        /\ responses[r][1].status = 200
        /\ responses[r][1].prediction.level = "Low"

\* C9: a present, non-null manualRain (0 included) puts precip_real =
\* manualRain and rain = manualRain * 10 into the FeatureSet that is evaluated
\* and echoed as data, leaves every other feature as fetched and sets
\* isSimulated; an absent or null manualRain leaves rain and precip_real as
\* fetched and isSimulated false.
C9_ManualRain ==
    \A r \in Reqs :
        (Answered(r) /\ HasCoordinates(r) /\ ~thrown[r]) =>
            LET resp == responses[r][1]
                m == body[r].manualRain
            IN  /\ resp.prediction = calculateLandslideRisk(resp.data)
                /\ SameOn({"temp", "humidity", "code"}, resp.data, weather[r])
                /\ SameOn(SoilFields, resp.data, soil[r])
                /\ SameOn(TopoFields, resp.data, topo[r])
                /\ IF m = Undefined \/ m = Null
                   THEN /\ SameOn({"rain", "precip_real"}, resp.data, weather[r])
                        /\ resp.isSimulated = FALSE
                   ELSE /\ resp.data.precip_real = m.val
                        /\ resp.data.rain = m.val * 10
                        /\ resp.isSimulated = TRUE

\* an override of 0 replaces fetched rain
C9_Witness ==
    \E r \in Reqs :
        /\ Answered(r) /\ HasCoordinates(r) /\ ~thrown[r]
        /\ body[r].manualRain = Num(0)
        /\ weather[r].rain = 150
        /\ responses[r][1].data.rain = 0
        /\ responses[r][1].isSimulated

\* C10: a request without lat or without lng gets status 400 with an error
\* body, exactly one response, and no fetcher or engine call; status 500 is
\* sent only after an exception escaped inside the try block.
C10_Validation ==
    \A r \in Reqs :
        /\ (pc[r] /= "idle" /\ ~HasCoordinates(r)) =>
              /\ responses[r] = <<BadRequest>>
              /\ invoked[r] = {}
              /\ weather[r] = Pending /\ soil[r] = Pending /\ topo[r] = Pending
        /\ \A i \in 1..Len(responses[r]) :
              responses[r][i].status = 500 => (thrown[r] /\ HasCoordinates(r))
        /\ Len(responses[r]) <= 1

\* only lng is missing
C10_Witness ==
    \E r \in Reqs :
        /\ Answered(r)
        /\ body[r].lat /= Undefined /\ body[r].lng = Undefined
        /\ responses[r] = <<BadRequest>>

\* everything the route holds for one request
ReqState(r) ==
    <<pc[r], body[r], weather[r], soil[r], topo[r], responses[r], invoked[r],
      failed[r], thrown[r]>>

Succeeded(r) == Answered(r) /\ HasCoordinates(r) /\ ~thrown[r]

\* C11: with two requests suspended at the joined fetch and resumed in any
\* order, each request's data is its own merged FeatureSet, unchanged by the
\* evaluation, its prediction is calculateLandslideRisk of that FeatureSet
\* alone, equal FeatureSets get equal predictions, and no step of one request
\* changes anything held for the other.
C11_Independence ==
    /\ [](\A r \in Reqs :
            Succeeded(r) =>
                LET own == mergeFeatures(weather[r], soil[r], topo[r],
                                         body[r].manualRain)
                IN  /\ responses[r][1].data = own
                    /\ responses[r][1].prediction = calculateLandslideRisk(own))
    /\ [](\A r1, r2 \in Reqs :
            (Succeeded(r1) /\ Succeeded(r2)
             /\ responses[r1][1].data = responses[r2][1].data) =>
                responses[r1][1].prediction = responses[r2][1].prediction)
    /\ [][\A r1, r2 \in Reqs :
            r1 /= r2 => (ReqState(r1)' = ReqState(r1) \/ ReqState(r2)' = ReqState(r2))]_vars

\* both requests were in flight together and got different predictions
C11_Witness ==
    /\ Succeeded(1) /\ pc[2] = "fetching"
    /\ weather[2] /= Pending /\ soil[2] /= Pending /\ topo[2] /= Pending
    /\ weather[2] /= weather[1]
    /\ responses[1][1].prediction.level = "Low"
    /\ calculateLandslideRisk(mergeFeatures(weather[2], soil[2], topo[2],
                                            body[2].manualRain)).level = "High"

----------------------------------------------------------------------------
(* Properties of fetchSoil, checked under SpecSoil *)

Fetched == soilOut /= Pending

Answers(up) == up /= Failure

\* a mean that is absent, null or 0
NoValue(m) == m = Undefined \/ m = Null \/ m = Num(0)

\* the answer has a properties object, but no clay, sand or bdod value in it
NoValues(up) ==
    /\ Answers(up) /\ up.properties
    /\ \A k \in {"clay", "sand", "bdod"} :
          NoValue(up.layers[k]) /\ NoValue(up.direct[k])

\* the answer has no soil properties: no properties object, or no value in it
NoSoilProperties(up) == Answers(up) /\ (~up.properties \/ NoValues(up))

\* what the engine makes of a soil record, with default weather and terrain
LevelWithSoil(s) ==
    calculateLandslideRisk(
        mergeFeatures(WeatherDefault, s, TopoDefault, Undefined)).level

\* C12 as stated: a successful answer without soil properties gives the
\* open-water record, and the land default is returned only when the fetch
\* itself fails.
C12_AsStated ==
    Fetched =>
        /\ NoSoilProperties(soilUp) => soilOut = SoilWater
        /\ soilOut = SoilDefault => soilUp = Failure

\* C12, amended: a successful answer that has a properties object but no
\* non-zero clay, sand or bdod mean in it gives the open-water record (and the
\* engine then reports Safe), and nothing else does; a failed fetch and a
\* successful answer without a properties object both give the land default.
C12_OpenWater ==
    Fetched =>
        /\ NoValues(soilUp) => (soilOut = SoilWater /\ LevelWithSoil(soilOut) = "Safe")
        /\ soilOut.isWater => NoValues(soilUp)
        /\ (soilUp = Failure \/ ~soilUp.properties) => soilOut = SoilDefault

\* an ocean point: a properties object whose means are null
C12_Witness ==
    /\ Fetched /\ Answers(soilUp) /\ soilUp.properties
    /\ soilUp.layers.clay = Null /\ soilUp.layers.bdod = Null
    /\ soilOut = SoilWater

\* C13: every record fetchSoil returns has clay + sand + silt <= 100 and
\* silt >= 0.
C13_FractionBound ==
    Fetched =>
        /\ soilOut.clay + soilOut.sand + soilOut.silt <= 1000
        /\ soilOut.silt >= 0

----------------------------------------------------------------------------
(* A property of every return of the engine, checked under SpecEngine *)

\* C14: on every path (water, snow/ice, flat terrain, normal) the level is one
\* of Safe, Low, Medium, High; it is High exactly when FoS < 1.2, Safe exactly
\* when the water override fired, and Low only with FoS >= 1.5.
C14_LevelFoS ==
    (Evaluated /\ WellFormed(features)) =>
        /\ result.level \in {"Safe", "Low", "Medium", "High"}
        /\ result.level = "High" <=> result.details.FoS < 1200
        /\ result.level = "Safe" <=> WaterCase(features)
        /\ result.level = "Low" => result.details.FoS >= 1500

\* the snow/ice path at the slope limit: Medium with FoS 1.5
C14_Witness ==
    /\ Evaluated /\ WellFormed(features)
    /\ ~WaterCase(features) /\ SnowCase(features)
    /\ features.slope = 300
    /\ result.level = "Medium" /\ result.details.FoS = 1500

====
